---- MODULE Spec2Model ----
(***************************************************************************)
(* Model of src/src/renderer.py: class Renderer, which formats a          *)
(* LocationInfoDTO into the lines of a two-column text table.             *)
(*                                                                         *)
(* Text is modelled as a sequence of one-character strings, so that        *)
(* parsing and formatting are computed character by character.  The        *)
(* Cyrillic literals of the source are written with one Latin letter per   *)
(* Cyrillic letter (same length), and the degree sign as the token "deg".  *)
(*                                                                         *)
(* A Python value is the record [t, n, s]: t is "int", "str" or "none",    *)
(* n the value of an int and s the characters of a str.                    *)
(***************************************************************************)
EXTENDS Integers, Sequences, FiniteSets, TLC

VARIABLES location_info, last, first_render, n_render

vars == <<location_info, last, first_render, n_render>>

-----------------------------------------------------------------------------
(* Python values *)

PyInt(k) == [t |-> "int", n |-> k, s |-> <<>>]

PyStr(str) == [t |-> "str", n |-> 0, s |-> str]

PyNone == [t |-> "none", n |-> 0, s |-> <<>>]

-----------------------------------------------------------------------------
(* Text helpers: the behaviour of the Python built-ins the source uses *)

DigitChars == <<"0", "1", "2", "3", "4", "5", "6", "7", "8", "9">>

IsDigit(c) == \E i \in 1..10 : DigitChars[i] = c

DigitValue(c) == (CHOOSE i \in 1..10 : DigitChars[i] = c) - 1

IsSpace(c) == c \in {" ", "\n"}

RECURSIVE NatToStr(_)
(* str(k) for k >= 0 *)
NatToStr(k) ==
    IF k < 10 THEN <<DigitChars[k + 1]>>
    ELSE NatToStr(k \div 10) \o <<DigitChars[(k % 10) + 1]>>

(* str(k) of an int *)
IntToStr(k) == IF k < 0 THEN <<"-">> \o NatToStr(-k) ELSE NatToStr(k)

(* int(s) of a non-empty run of digits *)
RECURSIVE StrToNat(_)
StrToNat(s) ==
    IF s = <<>> THEN 0
    ELSE 10 * StrToNat(SubSeq(s, 1, Len(s) - 1)) + DigitValue(s[Len(s)])

(* what an f-string substitution {v} writes: format(v, "") *)
PyFormat(v) ==
    CASE v.t = "int" -> IntToStr(v.n)
      [] v.t = "str" -> v.s
      [] OTHER -> <<"N", "o", "n", "e">>

RECURSIVE Join(_, _)
(* sep.join(parts) *)
Join(sep, parts) ==
    IF parts = <<>> THEN <<>>
    ELSE IF Len(parts) = 1 THEN parts[1]
    ELSE parts[1] \o sep \o Join(sep, Tail(parts))

RECURSIVE Replace(_, _, _)
(* s.replace(old, new) for one-character old and new *)
Replace(s, old, new) ==
    IF s = <<>> THEN <<>>
    ELSE <<IF s[1] = old THEN new ELSE s[1]>> \o Replace(Tail(s), old, new)

RECURSIVE LStripChar(_, _)
(* s.lstrip(c) *)
LStripChar(s, c) ==
    IF s # <<>> /\ s[1] = c THEN LStripChar(Tail(s), c) ELSE s

RECURSIVE LStrip(_)
LStrip(s) == IF s # <<>> /\ IsSpace(s[1]) THEN LStrip(Tail(s)) ELSE s

RECURSIVE RStrip(_)
(* s.rstrip() *)
RStrip(s) ==
    IF s # <<>> /\ IsSpace(s[Len(s)]) THEN RStrip(SubSeq(s, 1, Len(s) - 1)) ELSE s

(* s.strip() *)
Strip(s) == LStrip(RStrip(s))

RECURSIVE Split(_, _)
(* s.split(sep) for a one-character sep: always at least one piece *)
Split(s, sep) ==
    IF \A i \in 1..Len(s) : s[i] # sep THEN <<s>>
    ELSE LET i == CHOOSE j \in 1..Len(s) :
                      s[j] = sep /\ \A k \in 1..(j - 1) : s[k] # sep
         IN  <<SubSeq(s, 1, i - 1)>> \o Split(SubSeq(s, i + 1, Len(s)), sep)

(* s.splitlines(): like split on the newline, but the empty text has no  *)
(* line and a final newline opens no further line                         *)
SplitLines(s) ==
    IF s = <<>> THEN <<>>
    ELSE IF s[Len(s)] = "\n" THEN Split(SubSeq(s, 1, Len(s) - 1), "\n")
    ELSE Split(s, "\n")

Repeat(c, k) == [i \in 1..k |-> c]

(* s.ljust(w) *)
PadRight(w, s) == IF Len(s) >= w THEN s ELSE s \o Repeat(" ", w - Len(s))

Max(a, b) == IF a >= b THEN a ELSE b

RECURSIVE MaxOf(_)
MaxOf(ks) == IF ks = <<>> THEN 0 ELSE Max(ks[1], MaxOf(Tail(ks)))

-----------------------------------------------------------------------------
(* The outcome of a call: a returned text, returned lines, a returned      *)
(* timedelta (in seconds) or None, or a raised exception.                  *)

Returned(kind, text, lines, delta) ==
    [status |-> "ok", exc |-> "", kind |-> kind,
     text |-> text, lines |-> lines, delta |-> delta]

OkText(text) == Returned("str", text, <<>>, 0)

OkLines(lines) == Returned("list", <<>>, lines, 0)

OkDelta(seconds) == Returned("timedelta", <<>>, <<>>, seconds)

OkNone == Returned("None", <<>>, <<>>, 0)

Raise(exc) ==
    [status |-> "raise", exc |-> exc, kind |-> "",
     text |-> <<>>, lines |-> <<>>, delta |-> 0]

NotCalled ==
    [status |-> "none", exc |-> "", kind |-> "",
     text |-> <<>>, lines |-> <<>>, delta |-> 0]

-----------------------------------------------------------------------------
(* Renderer._format_languages *)

LanguageText(item) == item.name \o <<" ", "(">> \o item.native_name \o <<")">>

_format_languages(info) ==
    OkText(Join(<<",", " ">>,
                [i \in 1..Len(info.location.languages) |->
                    LanguageText(info.location.languages[i])]))

-----------------------------------------------------------------------------
(* Renderer._format_population *)

(* Variant: a group written without its leading zeros *)
ThreeDigitsUnpadded(k) == NatToStr(k)

ThreeDigits(k) ==
    <<DigitChars[(k \div 100) + 1], DigitChars[((k \div 10) % 10) + 1],
      DigitChars[(k % 10) + 1]>>

RECURSIVE GroupThousands(_)
(* the digits of k >= 0 with "," between groups of three, as format(k, ",") *)
GroupThousands(k) ==
    IF k < 1000 THEN NatToStr(k)
    ELSE GroupThousands(k \div 1000) \o <<",">> \o ThreeDigits(k % 1000)

(* "{:,}".format(v): an int is grouped; the "," option is refused for a   *)
(* str (ValueError) and any format spec is refused for None (TypeError)   *)
FormatComma(v) ==
    CASE v.t = "int" ->
            OkText(IF v.n < 0 THEN <<"-">> \o GroupThousands(-v.n)
                   ELSE GroupThousands(v.n))
      [] v.t = "str" -> Raise("ValueError")
      [] OTHER -> Raise("TypeError")

(* Variant: a population that cannot be grouped is written as it is *)
_format_population_lenient(info) ==
    LET grouped == FormatComma(info.location.population)
    IN  IF grouped.status = "raise" THEN OkText(PyFormat(info.location.population))
        ELSE OkText(Replace(grouped.text, ",", "."))

_format_population(info) ==
    LET grouped == FormatComma(info.location.population)
    IN  IF grouped.status = "raise" THEN grouped
        ELSE OkText(Replace(grouped.text, ",", "."))

-----------------------------------------------------------------------------
(* Renderer._format_currency_rates *)

RECURSIVE Pow10(_)
Pow10(k) == IF k = 0 THEN 1 ELSE 10 * Pow10(k - 1)

AllDigits(s) == \A i \in 1..Len(s) : IsDigit(s[i])

(* A Decimal: NaN, or (-1)^neg * coef * 10^(-scale) *)
Dec(neg, coef, scale) ==
    [ok |-> TRUE, exc |-> "", nan |-> FALSE, neg |-> neg, coef |-> coef, scale |-> scale]

DecNaN(neg) ==
    [ok |-> TRUE, exc |-> "", nan |-> TRUE, neg |-> neg, coef |-> 0, scale |-> 0]

DecError(exc) ==
    [ok |-> FALSE, exc |-> exc, nan |-> FALSE, neg |-> FALSE, coef |-> 0, scale |-> 0]

(* Decimal(text) for the numerals made of an optional sign, digits, an   *)
(* optional point and digits, with at least one digit, and for NaN; any    *)
(* other text is InvalidOperation.                                         *)
(* (Exponents, Infinity and the other spellings of NaN are not among the   *)
(* modelled inputs.)                                                       *)
DecimalOfText(text) ==
    LET s    == Strip(text)
        sgn  == s # <<>> /\ s[1] \in {"+", "-"}
        neg  == s # <<>> /\ s[1] = "-"
        body == IF sgn THEN Tail(s) ELSE s
        dots == {i \in 1..Len(body) : body[i] = "."}
        ip   == IF dots = {} THEN body
                ELSE SubSeq(body, 1, (CHOOSE i \in dots : TRUE) - 1)
        fp   == IF dots = {} THEN <<>>
                ELSE SubSeq(body, (CHOOSE i \in dots : TRUE) + 1, Len(body))
    IN  IF body = <<"N", "a", "N">> THEN DecNaN(neg)
        ELSE IF Cardinality(dots) <= 1 /\ AllDigits(ip) /\ AllDigits(fp)
                /\ Len(ip) + Len(fp) >= 1
             THEN Dec(neg, StrToNat(ip \o fp), Len(fp))
        ELSE DecError("InvalidOperation")

(* Decimal(v) *)
DecimalOf(v) ==
    CASE v.t = "int" -> Dec(v.n < 0, IF v.n < 0 THEN -v.n ELSE v.n, 0)
      [] v.t = "str" -> DecimalOfText(v.s)
      [] OTHER -> DecError("TypeError")

(* Variant: rounding=ROUND_HALF_EVEN, a tie going to the even hundredth *)
QuantizeCentsHalfEven(d) ==
    IF d.nan THEN d
    ELSE LET p   == Pow10(d.scale)
             num == d.coef * 100
             q   == num \div p
             up  == \/ 2 * (num % p) > p
                    \/ 2 * (num % p) = p /\ q % 2 = 1
         IN  Dec(d.neg, q + (IF up THEN 1 ELSE 0), 2)

(* d.quantize(Decimal('.01'), rounding=ROUND_HALF_UP): the coefficient in  *)
(* hundredths, a discarded part of one half or more rounding away from 0   *)
QuantizeCents(d) ==
    IF d.nan THEN d
    ELSE LET p   == Pow10(d.scale)
             num == d.coef * 100
         IN  Dec(d.neg, (num \div p) + (IF 2 * (num % p) >= p THEN 1 ELSE 0), 2)

TwoDigits(k) == <<DigitChars[(k \div 10) + 1], DigitChars[(k % 10) + 1]>>

(* str(d) of a quantized Decimal (exponent -2) or of NaN *)
DecimalToStr(d) ==
    (IF d.neg THEN <<"-">> ELSE <<>>)
    \o (IF d.nan THEN <<"N", "a", "N">>
        ELSE NatToStr(d.coef \div 100) \o <<".">> \o TwoDigits(d.coef % 100))

RateText(currency, rates) ==
    currency \o <<" ", "=", " ">> \o DecimalToStr(QuantizeCents(DecimalOf(rates))) \o <<" ", "r", "u", "b", ".">>

(* currency_rates is a dict: modelled as the sequence of its items in      *)
(* iteration order.  The first rate Decimal() refuses raises.              *)
_format_currency_rates(info) ==
    LET items == info.currency_rates
        bad   == {i \in 1..Len(items) : ~DecimalOf(items[i].rates).ok}
    IN  IF bad # {}
        THEN Raise(DecimalOf(items[CHOOSE i \in bad : \A j \in bad : i <= j].rates).exc)
        ELSE OkText(Join(<<",", " ">>,
                         [i \in 1..Len(items) |->
                             RateText(items[i].currency, items[i].rates)]))

-----------------------------------------------------------------------------
(* Renderer._parse_tz and Renderer._format_time *)

(* whether 'UTC([+-])(\d\d):(\d\d)' matches tzstr at position i *)
TzMatchAt(tzstr, i) ==
    /\ i + 8 <= Len(tzstr)
    /\ SubSeq(tzstr, i, i + 2) = <<"U", "T", "C">>
    /\ tzstr[i + 3] \in {"+", "-"}
    /\ IsDigit(tzstr[i + 4]) /\ IsDigit(tzstr[i + 5])
    /\ tzstr[i + 6] = ":"
    /\ IsDigit(tzstr[i + 7]) /\ IsDigit(tzstr[i + 8])

(* Variant: p.match(tzstr), which matches at the start of the text only *)
TzMatchesAnchored(tzstr) == {i \in {1} : TzMatchAt(tzstr, i)}

(* p.search(tzstr): the positions of a match; search takes the leftmost *)
TzMatches(tzstr) == {i \in 1..Len(tzstr) : TzMatchAt(tzstr, i)}

(* Variant: g.strip('0'), which also drops the trailing zeros *)
TzNumberStripAll(g) ==
    LET lstripped == LStripChar(g, "0")
        stripped  == IF lstripped # <<>> /\ lstripped[Len(lstripped)] = "0"
                     THEN SubSeq(lstripped, 1, Len(lstripped) - 1) ELSE lstripped
    IN  IF stripped # <<>> THEN StrToNat(stripped) ELSE 0

(* int(g.lstrip('0')) if that is non-empty else 0 *)
TzNumber(g) ==
    LET stripped == LStripChar(g, "0")
    IN  IF stripped # <<>> THEN StrToNat(stripped) ELSE 0

(* Variant: the sign group applied to the offset *)
TzOffsetSigned(sign, hs, ms) ==
    IF sign = "-" THEN 0 - (TzNumber(hs) * 3600 + TzNumber(ms) * 60)
    ELSE TzNumber(hs) * 3600 + TzNumber(ms) * 60

(* timedelta(hours=h, minutes=m), in seconds.  The sign group is read     *)
(* into a local and never used.                                            *)
TzOffset(sign, hs, ms) == TzNumber(hs) * 3600 + TzNumber(ms) * 60

(* Returns the timedelta of the leftmost match; without a match the        *)
(* function ends without a return statement, which returns None.           *)
_parse_tz(tzstr) ==
    LET found == TzMatches(tzstr)
    IN  IF found # {}
        THEN LET m == CHOOSE i \in found : \A j \in found : i <= j
             IN  OkDelta(TzOffset(tzstr[m + 3], SubSeq(tzstr, m + 4, m + 5),
                                  SubSeq(tzstr, m + 7, m + 8)))
        ELSE OkNone

(* time.strftime('%H:%M:%S') of a moment given in seconds *)
StrftimeHMS(t) ==
    LET tod == t % 86400
    IN  TwoDigits(tod \div 3600) \o <<":">> \o TwoDigits((tod \div 60) % 60)
        \o <<":">> \o TwoDigits(tod % 60)

(* Variant: a missing offset gives an empty time instead of an exception *)
_format_time_blank(info) ==
    IF info.location.timezones = <<>> THEN Raise("IndexError")
    ELSE LET tz_offset == _parse_tz(info.location.timezones[1])
         IN  IF tz_offset.kind = "None" THEN OkText(<<>>)
             ELSE OkText(StrftimeHMS(info.timestamp + tz_offset.delta))

(* timestamp + None is a TypeError.  timezones[0] of the source is the    *)
(* first element, timezones[1] here; of an empty list it is an IndexError. *)
_format_time(info) ==
    IF info.location.timezones = <<>> THEN Raise("IndexError")
    ELSE LET tz_offset == _parse_tz(info.location.timezones[1])
         IN  IF tz_offset.kind = "None" THEN Raise("TypeError")
             ELSE OkText(StrftimeHMS(info.timestamp + tz_offset.delta))

-----------------------------------------------------------------------------
(* Renderer._format_news *)

(* Variant: the description substituted without the test for None *)
NewsLineNoneText(i, newsDTO) ==
    NatToStr(i) \o <<")", " ", "\"">> \o newsDTO.title \o <<"\"", ".", " ">>
    \o PyFormat(newsDTO.description) \o <<"\n">>

NewsLine(i, newsDTO) ==
    NatToStr(i) \o <<")", " ", "\"">> \o newsDTO.title \o <<"\"", ".", " ">>
    \o (IF newsDTO.description.t # "none" THEN PyFormat(newsDTO.description) ELSE <<>>)
    \o <<"\n">>

RECURSIVE NewsLoop(_, _, _)
(* the loop body res += ... for the items from index i on *)
NewsLoop(res, items, i) ==
    IF i > Len(items) THEN res
    ELSE NewsLoop(res \o NewsLine(i, items[i]), items, i + 1)

_format_news(info) == OkText(NewsLoop(<<"\n">>, info.news.news, 1))

-----------------------------------------------------------------------------
(* tabulate(table, headers, tablefmt="simple") of the tabulate package, for *)
(* a table of text cells: every column is a left-aligned text column.      *)
(* A cell is stripped; a column is as wide as its widest cell line and at  *)
(* least two wider than its header; a row takes as many lines as its       *)
(* tallest cell; every line is right-stripped; the lines are joined by     *)
(* newlines.  With a header the format draws only the line below it.       *)

CellLines(cell) == SplitLines(Strip(cell))

CellWidth(cell) ==
    LET lines == CellLines(cell)
    IN  MaxOf([k \in 1..Len(lines) |-> Len(lines[k])])

ColumnWidth(table, headers, j) ==
    Max(Len(headers[j]) + 2, MaxOf([i \in 1..Len(table) |-> CellWidth(table[i][j])]))

PaddedLine(lines, k, w) ==
    IF k <= Len(lines) THEN PadRight(w, lines[k]) ELSE Repeat(" ", w)

RowLines(row, w1, w2) ==
    LET l1 == CellLines(row[1])
        l2 == CellLines(row[2])
    IN  [k \in 1..Max(Len(l1), Len(l2)) |->
            RStrip(PaddedLine(l1, k, w1) \o <<" ", " ">> \o PaddedLine(l2, k, w2))]

RECURSIVE Flatten(_)
Flatten(blocks) ==
    IF blocks = <<>> THEN <<>> ELSE blocks[1] \o Flatten(Tail(blocks))

Tabulate(table, headers) ==
    LET w1 == ColumnWidth(table, headers, 1)
        w2 == ColumnWidth(table, headers, 2)
    IN  Join(<<"\n">>,
             RowLines(headers, w1, w2)
             \o <<Repeat("-", w1) \o <<" ", " ">> \o Repeat("-", w2)>>
             \o Flatten([i \in 1..Len(table) |-> RowLines(table[i], w1, w2)]))

-----------------------------------------------------------------------------
(* Renderer.render *)

Labels ==
    <<<<"S", "t", "r", "a", "n", "a", ":">>, <<"S", "t", "o", "l", "i", "c", "a", ":">>, <<"R", "e", "g", "i", "o", "n", ":">>, <<"Y", "z", "y", "k", "i", ":">>,
      <<"N", "a", "s", "e", "l", "e", "n", "i", "e", " ", "s", "t", "r", "a", "n", "y", ":">>, <<"K", "u", "r", "s", "y", " ", "v", "a", "l", "u", "t", ":">>, <<"P", "o", "g", "o", "d", "a", ":">>,
      <<"O", "p", "i", "s", "a", "n", "i", "e", " ", "p", "o", "g", "o", "d", "y", ":">>, <<"S", "k", "o", "r", "o", "s", "t", "'", " ", "v", "e", "t", "r", "a", ":">>, <<"V", "i", "d", "i", "m", "o", "s", "t", "'", ":">>,
      <<"P", "l", "o", "w", "a", "d", "'", ":">>, <<"S", "i", "r", "o", "t", "a", " ", "i", " ", "d", "o", "l", "g", "o", "t", "a", ":">>, <<"M", "e", "s", "t", "n", "o", "e", " ", "v", "r", "e", "m", "y", ":">>, <<"N", "o", "v", "o", "s", "t", "i", ":">>>>

Headers == <<<<"P", "a", "r", "a", "m", "e", "t", "r">>, <<"Z", "n", "a", "c", "e", "n", "i", "e">>>>

(* Variant: the rows of the area and of the coordinates exchanged *)
TableSwapped(info, languages, population, rates, time, news) ==
    LET values ==
          <<info.location.name,
            info.location.capital,
            info.location.subregion,
            languages,
            population \o <<" ", "c", "e", "l", ".">>,
            rates,
            PyFormat(info.weather.temp) \o <<" ", "deg", "C">>,
            info.weather.description,
            info.weather.wind_speed,
            info.weather.visibility,
            PyFormat(info.location.area) \o <<" ", "k", "m", "^", "2">>,
            <<"(">> \o PyFormat(info.location.latitude) \o <<",", " ">>
                \o PyFormat(info.location.longitude) \o <<")">>,
            time \o <<" ", "(">> \o info.location.timezones[1] \o <<")">>,
            news>>
    IN  [i \in 1..14 |-> <<Labels[i], values[IF i = 11 THEN 12 ELSE IF i = 12 THEN 11 ELSE i]>>]

(* The table literal, once every sub-formatter has returned *)
Table(info, languages, population, rates, time, news) ==
    LET values ==
          <<info.location.name,
            info.location.capital,
            info.location.subregion,
            languages,
            population \o <<" ", "c", "e", "l", ".">>,
            rates,
            PyFormat(info.weather.temp) \o <<" ", "deg", "C">>,
            info.weather.description,
            info.weather.wind_speed,
            info.weather.visibility,
            PyFormat(info.location.area) \o <<" ", "k", "m", "^", "2">>,
            <<"(">> \o PyFormat(info.location.latitude) \o <<",", " ">>
                \o PyFormat(info.location.longitude) \o <<")">>,
            time \o <<" ", "(">> \o info.location.timezones[1] \o <<")">>,
            news>>
    IN  [i \in 1..14 |-> <<Labels[i], values[i]>>]

(* The list display evaluates its elements in order, so the first          *)
(* sub-formatter that raises ends render with that exception; otherwise    *)
(* the rendered table is split at its newlines.                            *)
render(info) ==
    LET languages  == _format_languages(info)
        population == _format_population(info)
        rates      == _format_currency_rates(info)
        time       == _format_time(info)
        news       == _format_news(info)
    IN  IF population.status = "raise" THEN population
        ELSE IF rates.status = "raise" THEN rates
        ELSE IF time.status = "raise" THEN time
        ELSE OkLines(Split(Tabulate(Table(info, languages.text, population.text,
                                          rates.text, time.text, news.text),
                                    Headers),
                           "\n"))

-----------------------------------------------------------------------------
(* Bounds of the model *)

MaxNews == 2

MaxRenders == 2

-----------------------------------------------------------------------------
(* The records a Renderer is constructed with *)

RECURSIVE SeqsUpTo(_, _)
(* the sequences of at most k elements of S *)
SeqsUpTo(S, k) ==
    IF k = 0 THEN {<<>>}
    ELSE LET shorter == SeqsUpTo(S, k - 1)
         IN  shorter \cup {Append(q, x) : q \in shorter, x \in S}

NewsItems ==
    {[title |-> <<"A">>, description |-> PyStr(<<"B">>)],
     [title |-> <<"C">>, description |-> PyNone]}

Item(currency, rates) == [currency |-> currency, rates |-> rates]

BaseInfo ==
    [location |->
        [name |-> <<"C", "h", "i", "l", "e">>, capital |-> <<"S", "a", "n", "t", "i", "a", "g", "o">>, subregion |-> <<>>,
         languages |-> <<[name |-> <<"S", "p", "a", "n", "i", "s", "h">>, native_name |-> <<"E", "s", "p", "a", "n", "o", "l">>],
                         [name |-> <<"E", "n", "g", "l", "i", "s", "h">>, native_name |-> <<"E", "n", "g", "l", "i", "s", "h">>]>>,
         population |-> PyInt(1234567), area |-> PyInt(756102),
         latitude |-> PyInt(-30), longitude |-> PyInt(-71),
         timezones |-> <<<<"U", "T", "C", "+", "0", "3", ":", "0", "0">>>>],
     weather |->
        [temp |-> PyInt(-5), description |-> <<"f", "o", "g">>,
         wind_speed |-> <<"3", " ", "m", "/", "s">>, visibility |-> <<"1", "0", " ", "k", "m">>],
     currency_rates |-> <<Item(<<"U", "S", "D">>, PyStr(<<"2", ".", "0", "0", "5">>))>>,
     news |-> [news |-> <<>>],
     timestamp |-> 36000]

Populations == {PyInt(1234567), PyStr(<<"m", "a", "n", "y">>), PyNone}

Areas == {PyInt(756102), PyStr(<<"n", "/", "a">>), PyNone}

RateMaps ==
    {<<Item(<<"U", "S", "D">>, PyStr(<<"2", ".", "0", "0", "5">>))>>,
     <<Item(<<"U", "S", "D">>, PyStr(<<"2", ".", "0">>)), Item(<<"E", "U", "R">>, PyStr(<<"0", ".", "0", "0", "4">>))>>,
     <<Item(<<"U", "S", "D">>, PyStr(<<"2", ".", "0">>)), Item(<<"E", "U", "R">>, PyStr(<<"n", "/", "a">>))>>,
     <<Item(<<"U", "S", "D">>, PyNone)>>,
     <<Item(<<"U", "S", "D">>, PyStr(<<"N", "a", "N">>))>>}

TimezoneLists ==
    {<<<<"U", "T", "C", "+", "0", "3", ":", "0", "0">>>>,
     <<<<"U", "T", "C", "-", "0", "5", ":", "3", "0">>, <<"U", "T", "C", "+", "0", "1", ":", "0", "0">>>>,
     <<<<"G", "M", "T", "+", "3">>>>,
     <<<<"U", "T", "C">>, <<"U", "T", "C", "+", "0", "1", ":", "0", "0">>>>,
     <<<<"(", "U", "T", "C", "+", "0", "3", ":", "0", "0", ")", " ", "M", "o", "s", "c", "o", "w">>>>}

Init ==
    /\ \E p \in Populations, a \in Areas, r \in RateMaps, z \in TimezoneLists,
          n \in SeqsUpTo(NewsItems, MaxNews) :
          location_info =
              [BaseInfo EXCEPT !.location.population = p,
                               !.location.area = a,
                               !.location.timezones = z,
                               !.currency_rates = r,
                               !.news.news = n]
    /\ last = [op |-> "__init__", arg |-> <<>>, result |-> NotCalled]
    /\ first_render = NotCalled
    /\ n_render = 0

-----------------------------------------------------------------------------
(* The operations of a Renderer.  No method assigns to the record or to    *)
(* an attribute of the renderer.                                           *)

Called(op, arg, result) ==
    /\ last' = [op |-> op, arg |-> arg, result |-> result]
    /\ UNCHANGED location_info

(* Variant: a render that consumes the news list it formats *)
RenderConsuming ==
    /\ n_render < MaxRenders
    /\ LET result == render(location_info)
       IN  /\ last' = [op |-> "render", arg |-> <<>>, result |-> result]
           /\ first_render' = IF n_render = 0 THEN result ELSE first_render
    /\ location_info' = [location_info EXCEPT !.news.news = <<>>]
    /\ n_render' = n_render + 1

Render ==
    /\ n_render < MaxRenders
    /\ LET result == render(location_info)
       IN  /\ Called("render", <<>>, result)
           /\ first_render' = IF n_render = 0 THEN result ELSE first_render
    /\ n_render' = n_render + 1

FormatLanguages ==
    /\ Called("_format_languages", <<>>, _format_languages(location_info))
    /\ UNCHANGED <<first_render, n_render>>

FormatPopulation ==
    /\ Called("_format_population", <<>>, _format_population(location_info))
    /\ UNCHANGED <<first_render, n_render>>

FormatCurrencyRates ==
    /\ Called("_format_currency_rates", <<>>, _format_currency_rates(location_info))
    /\ UNCHANGED <<first_render, n_render>>

FormatTime ==
    /\ Called("_format_time", <<>>, _format_time(location_info))
    /\ UNCHANGED <<first_render, n_render>>

ParseTz ==
    /\ \E i \in 1..Len(location_info.location.timezones) :
          Called("_parse_tz", location_info.location.timezones[i],
                 _parse_tz(location_info.location.timezones[i]))
    /\ UNCHANGED <<first_render, n_render>>

FormatNews ==
    /\ Called("_format_news", <<>>, _format_news(location_info))
    /\ UNCHANGED <<first_render, n_render>>

Next ==
    \/ Render
    \/ FormatLanguages
    \/ FormatPopulation
    \/ FormatCurrencyRates
    \/ FormatTime
    \/ ParseTz
    \/ FormatNews

Spec == Init /\ [][Next]_vars

-----------------------------------------------------------------------------
(* Specifications of the single formatters: Init draws the inputs of one   *)
(* formatter from a bounded set and the actions apply it.                  *)

MaxPopDigits == 7

MaxRates == 2

Fresh(info) ==
    /\ location_info = info
    /\ last = [op |-> "__init__", arg |-> <<>>, result |-> NotCalled]
    /\ first_render = NotCalled
    /\ n_render = 0

(* _format_time and _parse_tz *)

TzDigits == {"0", "1", "5", "9"}

OffsetTimezones ==
    {<<"U", "T", "C", sg, h1, h2, ":", m1, m2>> :
        sg \in {"+", "-"}, h1 \in TzDigits, h2 \in TzDigits,
        m1 \in TzDigits, m2 \in TzDigits}

OtherTimezones ==
    {<<"U", "T", "C", "+", "0", "3", ":", "0", "0">>, <<"U", "T", "C", "-", "0", "5", ":", "0", "0">>, <<"G", "M", "T", "+", "3">>, <<"U", "T", "C">>, <<"U", "T", "C", "+", "3", ":", "0", "0">>,
     <<"u", "t", "c", "+", "0", "3", ":", "0", "0">>, <<"(", "U", "T", "C", "+", "0", "3", ":", "0", "0", ")", " ", "M", "o", "s", "c", "o", "w">>, <<"U", "T", "C", "+", "0", "2", ":", "0", "0", "/", "U", "T", "C", "+", "0", "5", ":", "3", "0">>,
     <<"U", "T", "C", "0", "3", ":", "0", "0", " ", "U", "T", "C", "-", "1", "2", ":", "4", "5">>, <<"U", "T", "C", "+", "0", "3", "0", "0">>}

Timestamps == {0, 36000, 45296, 75600, 86399, 86400 + 3661}

InitTime ==
    \E z \in OffsetTimezones \cup OtherTimezones,
       more \in {<<>>, <<<<"U", "T", "C", "+", "0", "1", ":", "0", "0">>>>, <<<<"G", "M", "T">>>>},
       t \in Timestamps :
       Fresh([BaseInfo EXCEPT !.location.timezones = <<z>> \o more,
                              !.timestamp = t])

NextTime ==
    \/ FormatTime
    \/ ParseTz

SpecTime == InitTime /\ [][NextTime]_vars

(* _format_currency_rates *)

RateTexts ==
    {sg \o ip \o fp :
        sg \in {<<>>, <<"-">>},
        ip \in {<<"0">>, <<"2">>, <<"1", "2">>, <<>>},
        fp \in {<<>>, <<".", "0">>, <<".", "5">>, <<".", "0", "0", "4">>, <<".", "0", "0", "5">>, <<".", "9", "9", "5">>, <<".", "0", "1", "4", "9">>,
                <<".", "0", "1", "5">>, <<".", "9", "9", "9">>}}

Rates ==
    {PyStr(s) : s \in RateTexts} \cup {PyInt(7), PyInt(-3), PyNone, PyStr(<<"N", "a", "N">>)}

Currencies == {<<"U", "S", "D">>, <<"E", "U", "R">>, <<"C", "N", "Y">>}

OtherItems ==
    {Item(<<"E", "U", "R">>, PyStr(<<"0", ".", "0", "0", "4">>)), Item(<<"C", "N", "Y">>, PyStr(<<"n", "/", "a">>)),
     Item(<<"E", "U", "R">>, PyStr(<<"2", ".", "0">>))}

(* the items of a dict: the keys are distinct.  One item takes every rate *)
(* of Rates, before or after at most MaxRates - 1 others.                  *)
RateItems ==
    {q \in {<<>>} \cup
           {IF front THEN <<Item(c, r)>> \o others ELSE others \o <<Item(c, r)>> :
               c \in Currencies, r \in Rates, front \in BOOLEAN,
               others \in SeqsUpTo(OtherItems, MaxRates - 1)} :
        \A i, j \in 1..Len(q) : q[i].currency = q[j].currency => i = j}

InitRates == \E r \in RateItems : Fresh([BaseInfo EXCEPT !.currency_rates = r])

NextRates == FormatCurrencyRates

SpecRates == InitRates /\ [][NextRates]_vars

(* _format_population *)

PopulationValues ==
    {PyInt(StrToNat(q)) : q \in SeqsUpTo({"0", "1", "9"}, MaxPopDigits)}
    \cup {PyInt(1234567), PyInt(999), PyInt(1000), PyInt(-1234), PyStr(<<"m", "a", "n", "y">>), PyNone}

InitPopulation ==
    \E p \in PopulationValues : Fresh([BaseInfo EXCEPT !.location.population = p])

NextPopulation == FormatPopulation

SpecPopulation == InitPopulation /\ [][NextPopulation]_vars

(* _format_news *)

NewsItemsWide ==
    {[title |-> t, description |-> d] :
        t \in {<<"A">>, <<"C">>, <<>>},
        d \in {PyNone, PyStr(<<>>), PyStr(<<"B">>), PyStr(<<"N", "o", "n", "e">>)}}

InitNews ==
    \E n \in SeqsUpTo(NewsItemsWide, MaxNews) : Fresh([BaseInfo EXCEPT !.news.news = n])

NextNews == FormatNews

SpecNews == InitNews /\ [][NextNews]_vars

-----------------------------------------------------------------------------
(* Properties.  The helpers below restate, independently of the model's   *)
(* formatters, what the inputs and the outputs mean.                       *)

FirstTimezone == location_info.location.timezones[1]

(* s is exactly UTC, the sign sg, two digits, a colon, two digits *)
IsOffsetForm(s, sg) ==
    /\ Len(s) = 9
    /\ s[1] = "U" /\ s[2] = "T" /\ s[3] = "C" /\ s[4] = sg /\ s[7] = ":"
    /\ \A i \in {5, 6, 8, 9} : IsDigit(s[i])

(* the offset pattern occurs in s from position i on *)
OffsetOccursAt(s, i) ==
    /\ i >= 1 /\ i + 8 <= Len(s)
    /\ IsOffsetForm(SubSeq(s, i, i + 8), s[i + 3])
    /\ s[i + 3] \in {"+", "-"}

OffsetOccurs(s) == \E i \in 1..Len(s) : OffsetOccursAt(s, i)

(* the magnitude, in seconds, of the offset written from position i on *)
OffsetSecondsAt(s, i) ==
    (10 * DigitValue(s[i + 4]) + DigitValue(s[i + 5])) * 3600
    + (10 * DigitValue(s[i + 7]) + DigitValue(s[i + 8])) * 60

(* text is a zero-padded 24-hour HH:MM:SS *)
IsClock(text) ==
    /\ Len(text) = 8
    /\ text[3] = ":" /\ text[6] = ":"
    /\ \A i \in {1, 2, 4, 5, 7, 8} : IsDigit(text[i])
    /\ 10 * DigitValue(text[1]) + DigitValue(text[2]) < 24
    /\ 10 * DigitValue(text[4]) + DigitValue(text[5]) < 60
    /\ 10 * DigitValue(text[7]) + DigitValue(text[8]) < 60

ClockSeconds(text) ==
    (10 * DigitValue(text[1]) + DigitValue(text[2])) * 3600
    + (10 * DigitValue(text[4]) + DigitValue(text[5])) * 60
    + 10 * DigitValue(text[7]) + DigitValue(text[8])

(* text is a decimal numeral: optional sign, digits with at most one point *)
IsNumeral(text) ==
    LET body == IF text # <<>> /\ text[1] \in {"+", "-"} THEN Tail(text) ELSE text
    IN  /\ \A i \in 1..Len(body) : IsDigit(body[i]) \/ body[i] = "."
        /\ Cardinality({i \in 1..Len(body) : body[i] = "."}) <= 1
        /\ \E i \in 1..Len(body) : IsDigit(body[i])

IsNumber(v) == v.t = "int"

(* a rate Decimal has a value for: a number, a numeral or NaN *)
IsDecimalValue(v) ==
    v.t = "int" \/ (v.t = "str" /\ (IsNumeral(v.s) \/ v.s = <<"N", "a", "N">>))

IsNumericRate(v) == v.t = "int" \/ (v.t = "str" /\ IsNumeral(v.s))

RatesOf(info) == {info.currency_rates[i].rates : i \in 1..Len(info.currency_rates)}

WellFormed(info) ==
    /\ info.location.timezones # <<>>
    /\ \/ IsOffsetForm(info.location.timezones[1], "+")
       \/ IsOffsetForm(info.location.timezones[1], "-")
    /\ IsNumber(info.location.population)
    /\ \A r \in RatesOf(info) : IsNumericRate(r)

(* the table lines: the width of the label column is that of the first    *)
(* run of dashes of the separator line                                     *)
LabelWidth(lines) ==
    (CHOOSE i \in 1..Len(lines[2]) :
        lines[2][i] = " " /\ \A j \in 1..(i - 1) : lines[2][j] = "-") - 1

LabelColumn(line, w) == RStrip(SubSeq(line, 1, IF Len(line) < w THEN Len(line) ELSE w))

ValueColumn(line, w) == SubSeq(line, w + 3, Len(line))

EndsWith(s, suffix) ==
    Len(s) >= Len(suffix) /\ SubSeq(s, Len(s) - Len(suffix) + 1, Len(s)) = suffix

IsSeparatorLine(line) ==
    /\ \A i \in 1..Len(line) : line[i] \in {"-", " "}
    /\ Cardinality({i \in 1..Len(line) : line[i] = " "}) = 2

(* header, separator, the 14 labelled rows in order, each of the first 13 *)
(* on one line, and newsLines lines for the news row                      *)
TableShape(lines, info, newsLines) ==
    /\ Len(lines) = 15 + newsLines
    /\ IsSeparatorLine(lines[2])
    /\ LET w == LabelWidth(lines)
       IN  /\ LabelColumn(lines[1], w) = Headers[1]
           /\ ValueColumn(lines[1], w) = Headers[2]
           /\ \A k \in 1..14 : LabelColumn(lines[2 + k], w) = Labels[k]
           /\ \A k \in 17..Len(lines) : LabelColumn(lines[k], w) = <<>>
           /\ ValueColumn(lines[3], w) = info.location.name
           /\ ValueColumn(lines[4], w) = info.location.capital
           /\ EndsWith(ValueColumn(lines[7], w), <<" ", "c", "e", "l", ".">>)
           /\ EndsWith(ValueColumn(lines[8], w), <<" ", "r", "u", "b", ".">>) \/ info.currency_rates = <<>>
           /\ EndsWith(ValueColumn(lines[9], w), <<"deg", "C">>)
           /\ ValueColumn(lines[10], w) = info.weather.description
           /\ EndsWith(ValueColumn(lines[13], w), <<" ", "k", "m", "^", "2">>)
           /\ ValueColumn(lines[14], w) =
                 <<"(">> \o IntToStr(info.location.latitude.n) \o <<",", " ">>
                 \o IntToStr(info.location.longitude.n) \o <<")">>
           /\ EndsWith(ValueColumn(lines[15], w),
                       <<" ", "(">> \o info.location.timezones[1] \o <<")">>)
           /\ IsClock(SubSeq(ValueColumn(lines[15], w), 1, 8))
           /\ \A k \in 1..Len(info.news.news) :
                 SubSeq(ValueColumn(lines[15 + k], w), 1, 2) = NatToStr(k) \o <<")">>

(* C1 as stated: for every well-formed record render returns one header   *)
(* line, one separator line and exactly 14 data rows, one line per field,  *)
(* in the fixed order, whatever the number of news items.                  *)
C1_SixteenLines ==
    (last.op = "render" /\ WellFormed(location_info)) =>
        /\ last.result.status = "ok"
        /\ TableShape(last.result.lines, location_info, 1)

(* C1 amended: for every well-formed record render returns the header     *)
(* line, the separator line and the 14 rows in the fixed order; rows 1 to  *)
(* 13 take one line each and the news row takes one line per news item    *)
(* (one line when there is none), its later lines with an empty label      *)
(* column: 15 + max(1, n) lines for n news items.                          *)
C1_RowsInOrder ==
    (last.op = "render" /\ WellFormed(location_info)) =>
        /\ last.result.status = "ok"
        /\ TableShape(last.result.lines, location_info,
                      Max(1, Len(location_info.news.news)))

C1_Witness ==
    /\ last.op = "render"
    /\ WellFormed(location_info)
    /\ Len(location_info.news.news) = 2
    /\ Len(last.result.lines) = 17
    /\ last.result.lines[16] = PadRight(19, <<"N", "o", "v", "o", "s", "t", "i", ":">>) \o <<"1", ")", " ", "\"", "A", "\"", ".", " ", "B">>
    /\ last.result.lines[17] = Repeat(" ", 19) \o <<"2", ")", " ", "\"", "C", "\"", ".">>

(* C2: for a first timezone UTC+HH:MM, _format_time returns the time of    *)
(* day of timestamp + HH hours + MM minutes, modulo 24 hours, as           *)
(* zero-padded HH:MM:SS; leading zeros of HH and MM do not matter; the     *)
(* later timezone entries do not enter the result.                         *)
C2_FormatTimeAddsOffset ==
    (last.op = "_format_time" /\ IsOffsetForm(FirstTimezone, "+")) =>
        /\ last.result.status = "ok"
        /\ IsClock(last.result.text)
        /\ ClockSeconds(last.result.text) =
              (location_info.timestamp + OffsetSecondsAt(FirstTimezone, 1)) % 86400
        /\ (FirstTimezone = <<"U", "T", "C", "+", "0", "0", ":", "0", "0">>) =>
              ClockSeconds(last.result.text) = location_info.timestamp % 86400
        /\ (FirstTimezone = <<"U", "T", "C", "+", "0", "3", ":", "0", "0">> /\ location_info.timestamp = 36000) =>
              last.result.text = <<"1", "3", ":", "0", "0", ":", "0", "0">>

C2_Witness ==
    /\ last.op = "_format_time"
    /\ location_info.location.timezones = <<<<"U", "T", "C", "+", "0", "3", ":", "0", "0">>, <<"U", "T", "C", "+", "0", "1", ":", "0", "0">>>>
    /\ location_info.timestamp = 36000
    /\ last.result.text = <<"1", "3", ":", "0", "0", ":", "0", "0">>

(* C3: the sign is discarded: for a first timezone UTC-HH:MM the offset    *)
(* magnitude is added to the timestamp, as for UTC+HH:MM, never            *)
(* subtracted.                                                             *)
C3_SignDiscarded ==
    (last.op = "_format_time" /\ IsOffsetForm(FirstTimezone, "-")) =>
        /\ last.result.status = "ok"
        /\ IsClock(last.result.text)
        /\ ClockSeconds(last.result.text) =
              (location_info.timestamp + OffsetSecondsAt(FirstTimezone, 1)) % 86400

C3_Witness ==
    /\ last.op = "_format_time"
    /\ FirstTimezone = <<"U", "T", "C", "-", "0", "5", ":", "0", "0">>
    /\ location_info.timestamp = 36000
    /\ last.result.text = <<"1", "5", ":", "0", "0", ":", "0", "0">>

(* C4: if the offset pattern does not occur in the first timezone string   *)
(* (as in GMT+3 or in UTC alone), render raises and returns no lines:      *)
(* never a table with a blank or garbage local-time row.                   *)
C4_MalformedTimezoneFails ==
    (last.op = "render" /\ ~OffsetOccurs(FirstTimezone)) =>
        /\ last.result.status = "raise"
        /\ last.result.lines = <<>>
        /\ (FirstTimezone \in {<<"G", "M", "T", "+", "3">>, <<"U", "T", "C">>}
            /\ IsNumber(location_info.location.population)
            /\ \A r \in RatesOf(location_info) : IsDecimalValue(r)) =>
              last.result.exc = "TypeError"

C4_Witness ==
    /\ last.op = "render"
    /\ FirstTimezone = <<"G", "M", "T", "+", "3">>
    /\ IsNumber(location_info.location.population)
    /\ \A r \in RatesOf(location_info) : IsDecimalValue(r)
    /\ last.result.status = "raise"
    /\ last.result.exc = "TypeError"

HalfUpCents(n, p) ==
    CHOOSE c \in 0..((100 * n) \div p + 1) :
        (2 * c - 1) * p <= 200 * n /\ 200 * n < (2 * c + 1) * p

(* the magnitude of a numeric rate as the fraction num / den *)
RateFraction(v) ==
    IF v.t = "int" THEN [neg |-> v.n < 0, num |-> IF v.n < 0 THEN 0 - v.n ELSE v.n, den |-> 1]
    ELSE LET neg  == v.s[1] = "-"
             body == IF v.s[1] \in {"+", "-"} THEN Tail(v.s) ELSE v.s
             dot  == IF \E i \in 1..Len(body) : body[i] = "."
                     THEN CHOOSE i \in 1..Len(body) : body[i] = "."
                     ELSE Len(body) + 1
             frac == SubSeq(body, dot + 1, Len(body))
         IN  [neg |-> neg,
              num |-> StrToNat(SubSeq(body, 1, dot - 1)) * Pow10(Len(frac)) + StrToNat(frac),
              den |-> Pow10(Len(frac))]

(* CODE = X.XX rub. for the hundredths c *)
RateEntry(currency, neg, c) ==
    currency \o <<" ", "=", " ">> \o (IF neg THEN <<"-">> ELSE <<>>)
    \o NatToStr(c \div 100) \o <<".">>
    \o <<DigitChars[((c \div 10) % 10) + 1], DigitChars[(c % 10) + 1]>> \o <<" ", "r", "u", "b", ".">>

(* C6: _format_currency_rates writes every (code, rate) pair, in the       *)
(* mapping's order, as CODE = X.XX rub. joined by ", ", X.XX being the     *)
(* rate rounded half up (ties to the larger magnitude) to two decimals on  *)
(* its exact decimal value: 2.005 -> 2.01, 2.0 -> 2.00, 0.004 -> 0.00.     *)
C6_RatesRoundedHalfUp ==
    (/\ last.op = "_format_currency_rates"
     /\ \A r \in RatesOf(location_info) : IsNumericRate(r)) =>
        LET items == location_info.currency_rates
        IN  /\ last.result.status = "ok"
            /\ last.result.text =
                  Join(<<",", " ">>,
                       [i \in 1..Len(items) |->
                           LET f == RateFraction(items[i].rates)
                           IN  RateEntry(items[i].currency, f.neg,
                                         HalfUpCents(f.num, f.den))])
            /\ (items = <<Item(<<"U", "S", "D">>, PyStr(<<"2", ".", "0", "0", "5">>))>>) =>
                  last.result.text = <<"U", "S", "D", " ", "=", " ", "2", ".", "0", "1", " ", "r", "u", "b", ".">>
            /\ (items = <<Item(<<"U", "S", "D">>, PyStr(<<"2", ".", "0">>))>>) =>
                  last.result.text = <<"U", "S", "D", " ", "=", " ", "2", ".", "0", "0", " ", "r", "u", "b", ".">>
            /\ (items = <<Item(<<"U", "S", "D">>, PyStr(<<"0", ".", "0", "0", "4">>))>>) =>
                  last.result.text = <<"U", "S", "D", " ", "=", " ", "0", ".", "0", "0", " ", "r", "u", "b", ".">>

C6_Witness ==
    /\ last.op = "_format_currency_rates"
    /\ location_info.currency_rates =
          <<Item(<<"U", "S", "D">>, PyStr(<<"2", ".", "0", "0", "5">>)), Item(<<"E", "U", "R">>, PyStr(<<"0", ".", "0", "0", "4">>))>>
    /\ last.result.text = <<"U", "S", "D", " ", "=", " ", "2", ".", "0", "1", " ", "r", "u", "b", ".", ",", " ", "E", "U", "R", " ", "=", " ", "0", ".", "0", "0", " ", "r", "u", "b", ".">>

RECURSIVE Without(_, _)
(* s with every c taken out *)
Without(s, c) ==
    IF s = <<>> THEN <<>>
    ELSE (IF s[1] = c THEN <<>> ELSE <<s[1]>>) \o Without(Tail(s), c)

(* C7: for a non-negative integer population, _format_population returns   *)
(* its digits grouped in threes from the right with "." between the        *)
(* groups: no decimal part, no leading separator, no leading zeros, and    *)
(* the number again once the separators are removed.                       *)
C7_PopulationGrouped ==
    (/\ last.op = "_format_population"
     /\ location_info.location.population.t = "int"
     /\ location_info.location.population.n >= 0) =>
        LET n == location_info.location.population.n
            r == last.result.text
        IN  /\ last.result.status = "ok"
            /\ r # <<>>
            /\ \A j \in 1..Len(r) :
                  IF j % 4 = 0 THEN r[Len(r) + 1 - j] = "."
                  ELSE IsDigit(r[Len(r) + 1 - j])
            /\ r[1] # "."
            /\ r[1] = "0" => r = <<"0">>
            /\ StrToNat(Without(r, ".")) = n
            /\ n < 1000 => \A j \in 1..Len(r) : r[j] # "."
            /\ n = 1234567 => r = <<"1", ".", "2", "3", "4", ".", "5", "6", "7">>

C7_Witness ==
    /\ last.op = "_format_population"
    /\ location_info.location.population = PyInt(1234567)
    /\ last.result.text = <<"1", ".", "2", "3", "4", ".", "5", "6", "7">>

(* C8: _format_news returns one newline, then one newline-terminated line  *)
(* per news item, in input order, the k-th being k) "Title". Description   *)
(* with an empty Description when the item has none; no item gives the     *)
(* single newline.                                                         *)
C8_NewsBlock ==
    (last.op = "_format_news") =>
        LET items  == location_info.news.news
            pieces == Split(last.result.text, "\n")
        IN  /\ last.result.status = "ok"
            /\ last.result.text[1] = "\n"
            /\ Len(pieces) = Len(items) + 2
            /\ pieces[1] = <<>>
            /\ pieces[Len(pieces)] = <<>>
            /\ \A k \in 1..Len(items) :
                  pieces[k + 1] =
                      NatToStr(k) \o <<")", " ", "\"">> \o items[k].title \o <<"\"", ".", " ">>
                      \o (IF items[k].description.t = "str"
                          THEN items[k].description.s ELSE <<>>)
            /\ items = <<>> => last.result.text = <<"\n">>

C8_Witness ==
    /\ last.op = "_format_news"
    /\ location_info.news.news =
          <<[title |-> <<"A">>, description |-> PyStr(<<"B">>)],
            [title |-> <<"C">>, description |-> PyNone]>>
    /\ last.result.text = <<"\n", "1", ")", " ", "\"", "A", "\"", ".", " ", "B", "\n", "2", ")", " ", "\"", "C", "\"", ".", " ", "\n">>

(* C9: rendering is stateless: no call changes the held record, and every  *)
(* render call returns the outcome (the same lines, or the same failure)   *)
(* of the first one.                                                       *)
C9_Stateless ==
    /\ [][location_info' = location_info]_vars
    /\ [](last.op = "render" => last.result = first_render)

C9_Witness ==
    /\ n_render >= 2
    /\ last.op = "render"
    /\ last.result.status = "ok"
    /\ last.result = first_render

(* C10: _parse_tz takes the leftmost occurrence of the offset pattern      *)
(* anywhere in the text, without range checks on the two-digit values, so  *)
(* UTC+99:99 is 99 hours and 99 minutes; the offset is never negative and  *)
(* at most 99 hours 99 minutes; without an occurrence it returns None.     *)
C10_ParseTzSearches ==
    (last.op = "_parse_tz") =>
        LET s   == last.arg
            occ == {i \in 1..Len(s) : OffsetOccursAt(s, i)}
        IN  /\ last.result.status = "ok"
            /\ IF occ = {} THEN last.result.kind = "None"
               ELSE /\ last.result.kind = "timedelta"
                    /\ last.result.delta =
                          OffsetSecondsAt(s, CHOOSE i \in occ : \A j \in occ : i <= j)
                    /\ last.result.delta >= 0
                    /\ last.result.delta <= 99 * 3600 + 99 * 60
            /\ s = <<"U", "T", "C", "+", "9", "9", ":", "9", "9">> => last.result.delta = 99 * 3600 + 99 * 60

C10_Witness ==
    /\ last.op = "_parse_tz"
    /\ last.arg = <<"U", "T", "C", "0", "3", ":", "0", "0", " ", "U", "T", "C", "-", "1", "2", ":", "4", "5">>
    /\ last.result.kind = "timedelta"
    /\ last.result.delta = 12 * 3600 + 45 * 60

====
